---- MODULE Spec2Model ----
(***************************************************************************)
(* State-machine model of orangewidget/utils/visual_settings_dlg.py:       *)
(* SettingsDialog, VisualSettingsDialog and the two singledispatch tables  *)
(* _add_control / _set_control_value, together with the behaviour of the   *)
(* three toolkit widgets the code drives (QComboBox, QSpinBox, QCheckBox). *)
(***************************************************************************)
EXTENDS Integers, Sequences, FiniteSets, TLC

VARIABLES
    settings,          \* the settings map handed to the constructor
    phase,             \* "new" | "ready" | "failed"  (before / after construction)
    cls,               \* "none" | "SettingsDialog" | "VisualSettingsDialog"
    controls,          \* self.__controls : key -> (control, default_value)
    changed_settings,  \* self.__changed_settings : key -> value
    setting_changed,   \* slots connected to the setting_changed signal, in order
    master_received,   \* what master.set_visual_settings was last called with, per key
    notified,          \* last value emitted on setting_changed per key since the last reset
    error,             \* exception that ended the most recent call ("none" if it returned)
    call               \* the most recent call and its arguments

vars == <<settings, phase, cls, controls, changed_settings, setting_changed,
          master_received, notified, error, call>>

\* Longest iterable of (key, value) pairs handed to apply_settings, and
\* largest number of entries of master.visual_settings.
MaxPairs == 2

----------------------------------------------------------------------------
\* Python values of ValueType (plus one value of an unregistered type).
PyStr(s) == [t |-> "str", s |-> s, i |-> 0, b |-> FALSE]

PyInt(i) == [t |-> "int", s |-> "", i |-> i, b |-> FALSE]

PyBool(b) == [t |-> "bool", s |-> "", i |-> 0, b |-> b]

PyFloat == [t |-> "float", s |-> "1.5", i |-> 0, b |-> FALSE]

\* ValueRangeType: a list of strings, a range(start, stop, step), or None.
Items(items) == [t |-> "list", items |-> items, start |-> 0, stop |-> 0, step |-> 0]

PyRange(start, stop, step) ==
    [t |-> "range", items |-> <<>>, start |-> start, stop |-> stop, step |-> step]

None == [t |-> "None", items |-> <<>>, start |-> 0, stop |-> 0, step |-> 0]

\* One parameter of the settings map: (values, default_value).
Param(values, default_value) == [values |-> values, default_value |-> default_value]

Min(a, b) == IF a < b THEN a ELSE b

Max(a, b) == IF a > b THEN a ELSE b

\* dict helpers
EmptyDict == [k \in {} |-> PyStr("")]

Put(d, key, value) ==
    [k \in (DOMAIN d) \cup {key} |-> IF k = key THEN value ELSE d[k]]

----------------------------------------------------------------------------
\* Toolkit widgets.  `connected` tells whether the widget's own change signal
\* has been connected to the lambda that emits setting_changed.
QComboBox ==
    [kind |-> "QComboBox", items |-> <<>>, index |-> -1, minimum |-> 0,
     maximum |-> 0, singleStep |-> 0, value |-> 0, checked |-> FALSE,
     connected |-> FALSE]

QSpinBox ==
    [kind |-> "QSpinBox", items |-> <<>>, index |-> -1, minimum |-> 0,
     maximum |-> 99, singleStep |-> 1, value |-> 0, checked |-> FALSE,
     connected |-> FALSE]

QCheckBox ==
    [kind |-> "QCheckBox", items |-> <<>>, index |-> -1, minimum |-> 0,
     maximum |-> 0, singleStep |-> 0, value |-> 0, checked |-> FALSE,
     connected |-> FALSE]

\* The value a control displays, as the Python value its change signal carries
\* (currentText, value, bool(state)).
Display(w) ==
    CASE w.kind = "QComboBox" ->
            PyStr(IF w.index = -1 THEN "" ELSE w.items[w.index + 1])
      [] w.kind = "QSpinBox" -> PyInt(w.value)
      [] OTHER -> PyBool(w.checked)

\* QComboBox.addItems on a combo: the first item added to an empty combo
\* becomes the current one.
addItems(w, items) ==
    [w EXCEPT !.items = w.items \o items,
              !.index = IF w.index = -1 /\ Len(w.items \o items) > 0
                        THEN 0 ELSE w.index]

\* QComboBox.findText: index of the first item with that text, -1 if none.
findText(w, text) ==
    LET hits == {n \in 1..Len(w.items) : w.items[n] = text}
    IN IF hits = {} THEN -1
       ELSE (CHOOSE n \in hits : \A m \in hits : n <= m) - 1

\* QComboBox.setCurrentText on a non-editable combo: select the item with
\* that text if there is one, otherwise do nothing.
setCurrentText(w, text) ==
    LET n == findText(w, text)
    IN IF n > -1 THEN [w EXCEPT !.index = n] ELSE w

\* QSpinBox.setRange: maximum never below minimum, value pulled into range.
setRange(w, lo, hi) ==
    LET top == IF lo < hi THEN hi ELSE lo
    IN [w EXCEPT !.minimum = lo, !.maximum = top,
                 !.value = Max(lo, Min(top, w.value))]

setMinimum(w, lo) == setRange(w, lo, Max(w.maximum, lo))

setMaximum(w, hi) == setRange(w, Min(w.minimum, hi), hi)

\* QSpinBox.setValue clamps to [minimum, maximum].
setValue(w, v) == [w EXCEPT !.value = Max(w.minimum, Min(w.maximum, v))]

\* QSpinBox.setSingleStep ignores a negative step.
setSingleStep(w, step) == IF step >= 0 THEN [w EXCEPT !.singleStep = step] ELSE w

setChecked(w, b) == [w EXCEPT !.checked = b]

connect(w) == [w EXCEPT !.connected = TRUE]

----------------------------------------------------------------------------
\* functools.singledispatch: the implementation registered for the first
\* class of the value's method resolution order; "object" is the fallback.
mro(t) ==
    CASE t = "bool" -> <<"bool", "int", "object">>
      [] t = "int" -> <<"int", "object">>
      [] t = "str" -> <<"str", "object">>
      [] OTHER -> <<t, "object">>

dispatch(registry, t) ==
    LET m == mro(t)
        hits == {n \in 1..Len(m) : m[n] \in registry}
    IN IF hits = {} THEN "object"
       ELSE m[CHOOSE n \in hits : \A k \in hits : n <= k]

\* A dispatch table with no implementation registered for bool.
add_control_registry_no_bool == {"str", "int"}

\* The classes _add_control has an implementation registered for.
add_control_registry == {"str", "int", "bool"}

\* A combo that is filled but never told the default.
add_control_str_unset(value, values) ==
    connect(addItems(QComboBox, values.items))

\* _add_control for a str default: a combo holding the allowed texts.
add_control_str(value, values) ==
    connect(setCurrentText(addItems(QComboBox, values.items), value.s))

\* A spin box left with the toolkit's own range.
add_control_int_unbounded(value, values) ==
    connect(setValue(setSingleStep(QSpinBox, values.step), value.i))

\* _add_control for an int default: QSpinBox(minimum=, maximum=, singleStep=,
\* value=), the properties set in the order they are written.
add_control_int(value, values) ==
    connect(setValue(setSingleStep(setMaximum(setMinimum(QSpinBox,
        values.start), values.stop), values.step), value.i))

\* _add_control for a bool default: a check box; `values` is ignored.
add_control_bool(value, values) ==
    connect(setChecked(QCheckBox, value.b))

\* _add_control: [raised, control].
add_control(value, values) ==
    LET impl == dispatch(add_control_registry, value.t)
    IN CASE impl = "str" ->
              [raised |-> "none", control |-> add_control_str(value, values)]
         [] impl = "int" ->
              [raised |-> "none", control |-> add_control_int(value, values)]
         [] impl = "bool" ->
              [raised |-> "none", control |-> add_control_bool(value, values)]
         [] OTHER ->
              [raised |-> "NotImplementedError", control |-> QCheckBox]

\* _set_control_value: dispatch on the control's class.
set_control_value(control, value) ==
    CASE control.kind = "QComboBox" -> setCurrentText(control, value.s)
      [] control.kind = "QSpinBox" -> setValue(control, value.i)
      [] OTHER -> setChecked(control, value.b)

----------------------------------------------------------------------------
\* The dialog object: self = [controls, changed_settings, setting_changed,
\* master_received, notified].

\* A handler that records only the first value notified for a key.
on_setting_changed_first(changed, key, value) ==
    IF key \in DOMAIN changed THEN changed ELSE Put(changed, key, value)

\* SettingsDialog.__on_setting_changed
on_setting_changed(changed, key, value) == Put(changed, key, value)

\* master.set_visual_settings(key, value): the host is handed the pair.
set_visual_settings(received, key, value) == Put(received, key, value)

call_slot(self, slot, key, value) ==
    CASE slot = "__on_setting_changed" ->
            [self EXCEPT !.changed_settings = on_setting_changed(@, key, value)]
      [] slot = "set_visual_settings" ->
            [self EXCEPT !.master_received = set_visual_settings(@, key, value)]
      [] OTHER -> self

RECURSIVE call_slots(_, _, _, _)
call_slots(self, slots, key, value) ==
    IF slots = <<>> THEN self
    ELSE call_slots(call_slot(self, Head(slots), key, value), Tail(slots),
                    key, value)

\* setting_changed.emit(key, value): every connected slot runs, in order.
emit(self, key, value) ==
    call_slots([self EXCEPT !.notified = Put(@, key, value)],
               self.setting_changed, key, value)

\* A change signal that carries the value shown before the change.
control_becomes_stale(self, key, new) ==
    LET old == self.controls[key].control
        s1 == [self EXCEPT !.controls[key].control = new]
    IN IF new.connected /\ Display(new) # Display(old)
       THEN emit(s1, key, Display(old))
       ELSE s1

\* A widget taking a new state: if what it displays changed and its change
\* signal is connected, the lambda emits setting_changed(key, new display).
control_becomes(self, key, new) ==
    LET old == self.controls[key].control
        s1 == [self EXCEPT !.controls[key].control = new]
    IN IF new.connected /\ Display(new) # Display(old)
       THEN emit(s1, key, Display(new))
       ELSE s1

\* _set_control_value(self.__controls[key][0], value) and the signals it fires.
push_value(self, key, value) ==
    control_becomes(self, key,
                    set_control_value(self.controls[key].control, value))

\* A reset loop that writes back the recorded value instead of the default.
RECURSIVE reset_loop_recorded(_, _)
reset_loop_recorded(self, keys) ==
    IF keys = {} THEN self
    ELSE LET key == CHOOSE k \in keys : TRUE
         IN reset_loop_recorded(
                push_value(self, key, self.changed_settings[key]), keys \ {key})

\* SettingsDialog.__reset.  The loop visits the keys of the changed-settings
\* map; each visit touches only that key's control and entry, so the order
\* of the visits does not matter.
RECURSIVE reset_loop(_, _)
reset_loop(self, keys) ==
    IF keys = {} THEN self
    ELSE LET key == CHOOSE k \in keys : TRUE
         IN reset_loop(push_value(self, key, self.controls[key].default_value),
                       keys \ {key})

\* A reset that forgets the changes without touching the controls.
reset_forget(self) == [self EXCEPT !.changed_settings = EmptyDict]

reset(self) ==
    [reset_loop(self, DOMAIN self.changed_settings)
        EXCEPT !.changed_settings = EmptyDict]

\* An apply_settings that pushes each value into every control of the
\* addressed control's class.
RECURSIVE push_all(_, _, _, _)
push_all(self, keys, kind, value) ==
    IF keys = {} THEN self
    ELSE LET key == CHOOSE k \in keys : TRUE
         IN push_all(IF self.controls[key].control.kind = kind
                     THEN push_value(self, key, value) ELSE self,
                     keys \ {key}, kind, value)

RECURSIVE apply_settings_all(_, _)
apply_settings_all(self, pairs) ==
    IF pairs = <<>> THEN [self |-> self, raised |-> "none"]
    ELSE LET key == Head(pairs)[1]
             value == Head(pairs)[2]
         IN IF key \notin DOMAIN self.controls
            THEN [self |-> self, raised |-> "KeyError"]
            ELSE apply_settings_all(
                    push_all(self, DOMAIN self.controls,
                             self.controls[key].control.kind, value),
                    Tail(pairs))

\* SettingsDialog.apply_settings: [self, raised].
RECURSIVE apply_settings(_, _)
apply_settings(self, pairs) ==
    IF pairs = <<>> THEN [self |-> self, raised |-> "none"]
    ELSE LET key == Head(pairs)[1]
             value == Head(pairs)[2]
         IN IF key \notin DOMAIN self.controls
            THEN [self |-> self, raised |-> "KeyError"]
            ELSE apply_settings(push_value(self, key, value), Tail(pairs))

\* SettingsDialog.__add_row for one parameter.
add_row(self, key, param) ==
    LET r == add_control(param.default_value, param.values)
    IN IF r.raised # "none" THEN [self |-> self, raised |-> r.raised]
       ELSE [self |-> [self EXCEPT !.controls =
                          Put(@, key, [control |-> r.control,
                                       default_value |-> param.default_value])],
             raised |-> "none"]

\* SettingsDialog.__initialize: the nested loops over boxes, labels and
\* parameters, flattened to the sequence of key triples they visit.
RECURSIVE initialize(_, _, _)
initialize(self, stg, keys) ==
    IF keys = <<>> THEN [self |-> self, raised |-> "none"]
    ELSE LET r == add_row(self, Head(keys), stg[Head(keys)])
         IN IF r.raised # "none" THEN r
            ELSE initialize(r.self, stg, Tail(keys))

----------------------------------------------------------------------------
\* Construction.

NewDialog ==
    [controls |-> EmptyDict, changed_settings |-> EmptyDict,
     setting_changed |-> <<>>, master_received |-> EmptyDict,
     notified |-> EmptyDict]

\* Signal.connect(slot)
connect_slot(self, slot) ==
    [self EXCEPT !.setting_changed = Append(@, slot)]

\* SettingsDialog.__init__: [self, raised].
SettingsDialog_init(stg, keys) ==
    initialize(connect_slot(NewDialog, "__on_setting_changed"), stg, keys)

\* A constructor that applies the saved settings before it subscribes the host.
VisualSettingsDialog_init_late(master, stg, keys) ==
    LET r == SettingsDialog_init(stg, keys)
    IN IF r.raised # "none" THEN r
       ELSE LET a == IF master.has_visual_settings
                     THEN apply_settings(r.self, master.visual_settings)
                     ELSE [self |-> r.self, raised |-> "none"]
            IN [self |-> connect_slot(a.self, "set_visual_settings"),
                raised |-> a.raised]

\* VisualSettingsDialog.__init__: [self, raised].
VisualSettingsDialog_init(master, stg, keys) ==
    LET r == SettingsDialog_init(stg, keys)
    IN IF r.raised # "none" THEN r
       ELSE LET s1 == connect_slot(r.self, "set_visual_settings")
            IN IF master.has_visual_settings
               THEN apply_settings(s1, master.visual_settings)
               ELSE [self |-> s1, raised |-> "none"]

----------------------------------------------------------------------------
\* Inputs.

K1 == <<"Box 1", "Item 1", "Parameter 1">>

K2 == <<"Box 1", "Item 2", "Parameter 1">>

\* A key no control is registered under.
Stale == <<"Box 2", "Item 1", "Parameter 1">>

Keys == {K1, K2}

\* The order in which __initialize meets the keys of the settings map.
KeyOrder == <<K1, K2>>

ParamChoices ==
    { Param(Items(<<"Foo", "Bar">>), PyStr("Bar")),
      Param(Items(<<"Foo", "Bar">>), PyStr("Baz")),
      Param(PyRange(1, 3, 1), PyInt(2)),
      Param(PyRange(1, 3, 1), PyInt(5)),
      Param(PyRange(2, 0, -1), PyInt(1)),
      Param(None, PyBool(TRUE)),
      Param(PyRange(1, 3, 1), PyBool(FALSE)),
      Param(None, PyFloat) }

\* What the second parameter may be.
SecondChoices ==
    { Param(Items(<<"Foo", "Bar">>), PyStr("Bar")),
      Param(PyRange(1, 3, 1), PyInt(2)),
      Param(None, PyBool(TRUE)),
      Param(None, PyFloat) }

SettingsChoices ==
    {stg \in [Keys -> ParamChoices] : stg[K2] \in SecondChoices}

\* Values of each Python type that callers push into a control of that type.
InputValues(t) ==
    CASE t = "str" -> {PyStr("Foo"), PyStr("Baz")}
      [] t = "int" -> {PyInt(0), PyInt(1), PyInt(5)}
      [] t = "bool" -> {PyBool(TRUE), PyBool(FALSE)}
      [] OTHER -> {}

KindType(kind) ==
    CASE kind = "QComboBox" -> "str"
      [] kind = "QSpinBox" -> "int"
      [] OTHER -> "bool"

\* (key, value) pairs a caller may hand to apply_settings.
ApplyPairs ==
    {<<Stale, PyStr("Foo")>>} \cup
    UNION {{<<k, v>> : v \in InputValues(KindType(controls[k].control.kind))}
           : k \in DOMAIN controls}

\* (key, value) entries a host's saved visual_settings may hold.
SavedPairs ==
    {<<Stale, PyStr("Foo")>>} \cup
    UNION {{<<k, v>> : v \in InputValues(settings[k].default_value.t)}
           : k \in Keys}

PairSeqs(P) == UNION {[1..n -> P] : n \in 0..MaxPairs}

\* dict.items(): no key twice.
DistinctKeys(pairs) ==
    \A m, n \in 1..Len(pairs) : m # n => pairs[m][1] # pairs[n][1]

NoMaster == [has_visual_settings |-> FALSE, visual_settings |-> <<>>]

Masters ==
    {NoMaster} \cup
    {[has_visual_settings |-> TRUE, visual_settings |-> ps]
        : ps \in {q \in PairSeqs(SavedPairs) : DistinctKeys(q)}}

PairKeys(pairs) == {pairs[n][1] : n \in 1..Len(pairs)}

\* Values a user can bring a control to by interacting with it.
Admits(control, value) ==
    CASE control.kind = "QComboBox" ->
            value.t = "str" /\ \E n \in 1..Len(control.items) : control.items[n] = value.s
      [] control.kind = "QSpinBox" ->
            value.t = "int" /\ control.minimum <= value.i /\ value.i <= control.maximum
      [] OTHER -> value.t = "bool"

UserValues(control) ==
    CASE control.kind = "QComboBox" ->
            {PyStr(control.items[n]) : n \in 1..Len(control.items)}
      [] control.kind = "QSpinBox" ->
            {PyInt(n) : n \in control.minimum..control.maximum}
      [] OTHER -> {PyBool(TRUE), PyBool(FALSE)}

----------------------------------------------------------------------------
\* The state machine.

Self ==
    [controls |-> controls, changed_settings |-> changed_settings,
     setting_changed |-> setting_changed, master_received |-> master_received,
     notified |-> notified]

Becomes(self) ==
    /\ controls' = self.controls
    /\ changed_settings' = self.changed_settings
    /\ setting_changed' = self.setting_changed
    /\ master_received' = self.master_received
    /\ notified' = self.notified

Called(name, keys, master) == [name |-> name, keys |-> keys, master |-> master]

Init ==
    /\ settings \in SettingsChoices
    /\ phase = "new"
    /\ cls = "none"
    /\ controls = EmptyDict
    /\ changed_settings = EmptyDict
    /\ setting_changed = <<>>
    /\ master_received = EmptyDict
    /\ notified = EmptyDict
    /\ error = "none"
    /\ call = Called("none", {}, NoMaster)

\* dlg = SettingsDialog(master, settings)
NewSettingsDialog ==
    /\ phase = "new"
    /\ LET r == SettingsDialog_init(settings, KeyOrder)
       IN /\ Becomes(r.self)
          /\ error' = r.raised
          /\ phase' = IF r.raised = "none" THEN "ready" ELSE "failed"
    /\ cls' = "SettingsDialog"
    /\ call' = Called("SettingsDialog", {}, NoMaster)
    /\ UNCHANGED settings

\* dlg = VisualSettingsDialog(master, settings)
NewVisualSettingsDialog ==
    /\ phase = "new"
    /\ \E master \in Masters :
          LET r == VisualSettingsDialog_init(master, settings, KeyOrder)
          IN /\ Becomes(r.self)
             /\ error' = r.raised
             /\ phase' = IF r.raised = "none" THEN "ready" ELSE "failed"
             /\ call' = Called("VisualSettingsDialog",
                               PairKeys(master.visual_settings), master)
    /\ cls' = "VisualSettingsDialog"
    /\ UNCHANGED settings

\* The user changes what one control shows.
UserEdit ==
    /\ phase = "ready"
    /\ \E key \in DOMAIN controls :
          \E value \in UserValues(controls[key].control) :
             /\ value # Display(controls[key].control)
             /\ Becomes(push_value(Self, key, value))
             /\ call' = Called("edit", {key}, NoMaster)
    /\ error' = "none"
    /\ UNCHANGED <<settings, phase, cls>>

\* dlg.apply_settings(pairs)
ApplySettings ==
    /\ phase = "ready"
    /\ \E pairs \in PairSeqs(ApplyPairs) :
          LET r == apply_settings(Self, pairs)
          IN /\ Becomes(r.self)
             /\ error' = r.raised
             /\ call' = Called("apply_settings", PairKeys(pairs), NoMaster)
    /\ UNCHANGED <<settings, phase, cls>>

\* The Reset button is clicked.
Reset ==
    /\ phase = "ready"
    /\ Becomes([reset(Self) EXCEPT !.notified = EmptyDict])
    /\ error' = "none"
    /\ call' = Called("reset", DOMAIN changed_settings, NoMaster)
    /\ UNCHANGED <<settings, phase, cls>>

\* The Ok button is clicked; the caller reads changed_settings.
Accept ==
    /\ phase = "ready"
    /\ error' = "none"
    /\ call' = Called("accept", {}, NoMaster)
    /\ UNCHANGED <<settings, phase, cls, controls, changed_settings,
                   setting_changed, master_received, notified>>

Next ==
    \/ NewSettingsDialog
    \/ NewVisualSettingsDialog
    \/ UserEdit
    \/ ApplySettings
    \/ Reset
    \/ Accept

Spec == Init /\ [][Next]_vars

----------------------------------------------------------------------------
\* Properties.

Shown(key) == Display(controls[key].control)

Default(key) == controls[key].default_value

\* The default is a value the parameter's control can show: a text among the
\* items, an integer within [start, stop]; any bool.
InAllowed(param) ==
    CASE param.default_value.t = "str" ->
            \E n \in 1..Len(param.values.items) :
                param.values.items[n] = param.default_value.s
      [] param.default_value.t = "int" ->
            /\ param.values.start <= param.default_value.i
            /\ param.default_value.i <= param.values.stop
      [] OTHER -> TRUE

Supported(t) == t \in {"str", "int", "bool"}

\* The state right after a constructor returned.
Constructed ==
    phase = "ready" /\ call.name \in {"SettingsDialog", "VisualSettingsDialog"}

\* C1 (as stated): after reset every control whose key was in the
\* changed-settings map shows its registered default, and the map is empty.
C1_ResetRestoresEveryDefault ==
    call.name = "reset" =>
        /\ changed_settings = EmptyDict
        /\ \A key \in call.keys : Shown(key) = Default(key)

\* C1 (amended): after reset every control whose key was in the
\* changed-settings map and whose default is a value the control can show
\* displays that default, and the map is empty.
C1_ResetRestoresAllowedDefaults ==
    call.name = "reset" =>
        /\ changed_settings = EmptyDict
        /\ \A key \in call.keys :
              InAllowed(settings[key]) => Shown(key) = Default(key)

C1_Witness ==
    /\ call.name = "reset"
    /\ call.keys = Keys
    /\ \A key \in Keys :
          /\ InAllowed(settings[key])
          /\ Shown(key) = Default(key)
          /\ key \in DOMAIN master_received
          /\ master_received[key] = Default(key)

\* C2: a change event for key k with value v leaves the changed-settings map
\* with k -> v and every other entry as it was; the map always equals, per
\* key, the last value notified since the last reset.
C2_ChangeEventRecorded ==
    [][/\ changed_settings' = notified'
       /\ call'.name = "edit" =>
             \E key \in call'.keys :
                changed_settings' = Put(changed_settings, key, notified'[key])]_vars

C2_Witness ==
    /\ call.name = "edit"
    /\ DOMAIN changed_settings = Keys
    /\ \E key \in call.keys :
          /\ changed_settings[key] = Default(key)
          /\ key \in DOMAIN master_received

\* C3: apply_settings(pairs) leaves the displayed value of every control
\* whose key is not among the pairs as it was.
C3_ApplyTouchesOnlyItsKeys ==
    [][call'.name = "apply_settings" =>
          \A key \in (DOMAIN controls) \ call'.keys :
             Display(controls'[key].control) = Display(controls[key].control)]_vars

C3_Witness ==
    /\ call.name = "apply_settings"
    /\ error = "none"
    /\ \E key \in Keys :
          /\ call.keys = {key}
          /\ key \in DOMAIN changed_settings
          /\ Shown(key) # Default(key)
          /\ \E other \in Keys \ {key} :
                controls[other].control.kind = controls[key].control.kind

\* C4 (as stated): once construction finishes, the control of every str, int
\* or bool parameter shows the supplied default.
C4_ControlShowsDefault ==
    Constructed =>
        \A key \in Keys \ call.keys :
            Supported(settings[key].default_value.t) =>
                Shown(key) = settings[key].default_value

\* C4 (amended): once construction finishes, the control of every str, int
\* or bool parameter whose default is a value the control can show (a text
\* among the items, an integer within [start, stop], any bool) shows it.
C4_ControlShowsAllowedDefault ==
    Constructed =>
        \A key \in Keys \ call.keys :
            (Supported(settings[key].default_value.t) /\ InAllowed(settings[key]))
                => Shown(key) = settings[key].default_value

C4_Witness ==
    /\ Constructed
    /\ call.name = "SettingsDialog"
    /\ settings[K1].default_value = PyStr("Bar")
    /\ Shown(K1) = PyStr("Bar")
    /\ settings[K2].default_value = PyInt(2)
    /\ Shown(K2) = PyInt(2)

\* Every change made while the saved settings were applied reached the host.
HostSawEveryChange ==
    \A key \in DOMAIN changed_settings :
        /\ key \in DOMAIN master_received
        /\ master_received[key] = changed_settings[key]

KindFor(t) ==
    CASE t = "str" -> "QComboBox"
      [] t = "int" -> "QSpinBox"
      [] t = "bool" -> "QCheckBox"
      [] OTHER -> "none"

\* C6: construction builds a combo for a str default, a spin box for an int
\* default, a check box (never a spin box) for a bool default, whatever the
\* allowed values are, and fails with NotImplementedError exactly when some
\* default is of another type.
C6_KindFromDefaultType ==
    phase # "new" =>
        /\ \A key \in DOMAIN controls :
              controls[key].control.kind = KindFor(settings[key].default_value.t)
        /\ IF \E key \in Keys : ~Supported(settings[key].default_value.t)
           THEN phase = "failed" /\ error = "NotImplementedError"
           ELSE DOMAIN controls = Keys /\ error # "NotImplementedError"

C6_Witness ==
    /\ phase = "ready"
    /\ settings[K1] = Param(PyRange(1, 3, 1), PyBool(FALSE))
    /\ controls[K1].control.kind = "QCheckBox"
    /\ controls[K2].control.kind = "QSpinBox"

\* C7: on a constructed dialog no call ends in an error.
C7_NoErrorAfterConstruction ==
    phase = "ready" => error = "none"

\* C8 (as stated): every int control has minimum = start and maximum = stop,
\* and its displayed value and every value recorded for it lie in
\* [start, stop].
C8_WithinStartStop ==
    \A key \in DOMAIN controls :
        controls[key].control.kind = "QSpinBox" =>
            LET rng == settings[key].values
                spin == controls[key].control
            IN /\ spin.minimum = rng.start /\ spin.maximum = rng.stop
               /\ rng.start <= spin.value /\ spin.value <= rng.stop
               /\ key \in DOMAIN changed_settings =>
                     /\ rng.start <= changed_settings[key].i
                     /\ changed_settings[key].i <= rng.stop

\* C8 (amended): the same for every int control whose range has
\* start <= stop.
C8_WithinStartStopAscending ==
    \A key \in DOMAIN controls :
        (controls[key].control.kind = "QSpinBox"
            /\ settings[key].values.start <= settings[key].values.stop) =>
            LET rng == settings[key].values
                spin == controls[key].control
            IN /\ spin.minimum = rng.start /\ spin.maximum = rng.stop
               /\ rng.start <= spin.value /\ spin.value <= rng.stop
               /\ key \in DOMAIN changed_settings =>
                     /\ rng.start <= changed_settings[key].i
                     /\ changed_settings[key].i <= rng.stop

C8_Witness ==
    /\ Constructed
    /\ call.master.visual_settings = <<<<K1, PyInt(5)>>, <<K2, PyInt(0)>>>>
    /\ settings[K1] = Param(PyRange(1, 3, 1), PyInt(2))
    /\ Shown(K1) = PyInt(3)
    /\ changed_settings[K1] = PyInt(3)
    /\ Shown(K2) = PyInt(1)

\* C9: every key of the changed-settings map is a key of the control registry
\* and its recorded value is the value its control displays.
C9_RecordedIsShown ==
    \A key \in DOMAIN changed_settings :
        /\ key \in DOMAIN controls
        /\ changed_settings[key] = Shown(key)

C9_Witness ==
    /\ call.name = "apply_settings"
    /\ error = "KeyError"
    /\ \E key \in call.keys \cap Keys :
          /\ key \in DOMAIN changed_settings
          /\ changed_settings[key] # Default(key)
    /\ \E key \in Keys \ call.keys : key \in DOMAIN changed_settings

====
